---- MODULE Spec2Model ----
(***************************************************************************)
(* Tenant isolation of estimaite: the per-request tenant-context           *)
(* propagator (users/middleware.py) and the row-level-security policy set  *)
(* installed by the setup_rls management command.                          *)
(*                                                                         *)
(* Optional values are sequences of length 0 or 1: <<>> is SQL NULL / "no  *)
(* value", <<v>> is the value v.  Text is a sequence of decimal digits.    *)
(***************************************************************************)
EXTENDS Integers, Sequences, FiniteSets, TLC

\* ------------------------------------------------------------------ bounds
NumWorkers == 2
MaxUser == 2
MaxTenant == 2
MaxRows == 1
MaxRuns == 2
MaxStored == 3
MaxItems == 1

Workers == 1..NumWorkers
Users == 1..MaxUser
TenantIds == 1..MaxTenant

Anonymous == 0
NoProfile == 0
Principals == Users \cup {Anonymous}

Unset == <<>>
Some(v) == <<v>>

\* ------------------------------------------------------------ conversions
RECURSIVE Digits(_)
Digits(n) == IF n < 10 THEN <<n>> ELSE Digits(n \div 10) \o <<n % 10>>

\* str(tenant_id)
Str(n) == Digits(n)

RECURSIVE ParseDigits(_, _)
ParseDigits(s, acc) ==
    IF s = <<>> THEN acc ELSE ParseDigits(Tail(s), acc * 10 + Head(s))

\* current_setting('app.current_tenant_id', true)::integer : NULL stays NULL
CastInteger(c) == IF c = Unset THEN Unset ELSE Some(ParseDigits(c[1], 0))

Contexts == {Unset} \cup {Some(Str(t)) : t \in TenantIds}

\* ------------------------------------------------------------------- text
\* names and slugs are sequences of characters
DigitChars == <<"0", "1", "2", "3", "4", "5", "6", "7", "8", "9">>
WordChars == {"a", "b", "t"} \cup {DigitChars[i] : i \in DOMAIN DigitChars}
Separators == {" ", "-"}
Empty == <<>>

\* str.lower
Lower(ch) == CASE ch = "A" -> "a" [] ch = "B" -> "b" [] ch = "T" -> "t" [] OTHER -> ch

\* re.sub(r"[^\w\s-]", "", value.lower())
RECURSIVE Kept(_)
Kept(v) ==
    IF v = <<>> THEN <<>>
    ELSE (IF Lower(Head(v)) \in WordChars \cup Separators THEN <<Lower(Head(v))>> ELSE <<>>)
         \o Kept(Tail(v))

\* re.sub(r"[-\s]+", "-", value)
RECURSIVE Hyphenated(_)
Hyphenated(v) ==
    IF v = <<>> THEN <<>>
    ELSE IF Head(v) \notin Separators THEN <<Head(v)>> \o Hyphenated(Tail(v))
    ELSE IF Len(v) > 1 /\ v[2] \in Separators THEN Hyphenated(Tail(v))
    ELSE <<"-">> \o Hyphenated(Tail(v))

\* value.strip("-_")
RECURSIVE Strip(_)
Strip(v) ==
    IF v # <<>> /\ Head(v) = "-" THEN Strip(Tail(v))
    ELSE IF v # <<>> /\ v[Len(v)] = "-" THEN Strip(SubSeq(v, 1, Len(v) - 1))
    ELSE v

\* django.utils.text.slugify
Slugify(v) == Strip(Hyphenated(Kept(v)))

\* str(counter)
RECURSIVE Decimal(_)
Decimal(n) ==
    IF n < 10 THEN <<DigitChars[n + 1]>> ELSE Decimal(n \div 10) \o <<DigitChars[(n % 10) + 1]>>

\* f"{base_slug}-{counter}"
Suffixed(base, k) == base \o <<"-">> \o Decimal(k)

VARIABLES
    conn,       \* per worker: the thread-local storage connection's app.current_tenant_id
    pc,         \* per worker: "idle" or "handler" (inside get_response)
    req,        \* per worker: the request in flight, or the last one finished
    rows,       \* rows of the tenant-scoped tables: [tbl, id, tenant]; a users_profile
                \* row has the id of its user (OneToOneField)
    rls,        \* table -> row level security enabled
    policies,   \* installed policies
    runs,       \* completed runs of setup_rls
    stmt,       \* outcome of the last storage statement
    tenants,    \* users_tenant rows: [id, name, slug, active]
    accounts,   \* auth_user rows: [id, email]
    projects,   \* projects_project rows: [id, tenant, slug]
    features,   \* projects_feature rows: [id, tenant, project, parent]
    items,      \* projects_requirement and projects_qualityattributescenario
                \* rows: [tbl, id, tenant, feature]
    form,       \* per worker: the form a request has validated and not yet saved
    command,        \* the create_tenant run in progress
    out         \* the last response of a view or command

vars ==
    <<conn, pc, req, rows, rls, policies, runs, stmt,
      tenants, accounts, projects, features, items, form, command, out>>
reqVars == <<conn, pc, req>>
dbVars == <<rows, rls, policies, runs, stmt>>
appVars == <<tenants, accounts, projects, features, items, form, command, out>>

\* ------------------------------------------------------ storage connection
FreshConnection == [session |-> Unset, local |-> Unset]

\* a setting kept once for the whole server: what some request in flight
\* assigned
ServerWideSetting(c) ==
    LET vs == {req[w].executed[1] : w \in {v \in Workers : req[v].executed # <<>>}}
    IN IF vs = {} THEN Unset ELSE Some(CHOOSE v \in vs : TRUE)

\* current_setting('app.current_tenant_id', true)
CurrentSetting(c) == IF c.local # Unset THEN c.local ELSE c.session

\* a session-scoped SET: the value outlives the transaction
SetSession(c, v) == [c EXCEPT !.session = Some(v)]

\* SET LOCAL app.current_tenant_id = v : in effect until the transaction ends
SetLocal(c, v) == [c EXCEPT !.local = Some(v)]

\* a transaction end that keeps the SET LOCAL value
CommitKeepsLocal(c) == c

\* end of a transaction: every SET LOCAL value is reverted
Commit(c) == [c EXCEPT !.local = Unset]

\* cursor.execute on a connection in autocommit mode (no transaction block is
\* open anywhere in the request path): the statement is its own transaction,
\* so outside a transaction block SET LOCAL has no effect past the statement
ExecuteAutocommit(c, v) == Commit(SetLocal(c, v))

\* ------------------------------------------------- row level security (SQL)
TenantTable == "users_tenant"
ProfileTable == "users_profile"
EntityTables ==
    {"projects_project", "projects_feature", "projects_requirement",
     "projects_qualityattributecategory", "projects_qualityattributescenario"}
TenantScopedTables == EntityTables \cup {ProfileTable}
Tables == TenantScopedTables \cup {TenantTable}
Commands == {"SELECT", "INSERT", "UPDATE", "DELETE"}

\* three-valued SQL logic over "true", "false", "null"
SqlEq(a, b) ==
    IF a = Unset \/ b = Unset THEN "null" ELSE IF a = b THEN "true" ELSE "false"
SqlIsNull(a) == IF a = Unset THEN "true" ELSE "false"
SqlOr(p, q) ==
    IF p = "true" \/ q = "true" THEN "true"
    ELSE IF p = "null" \/ q = "null" THEN "null" ELSE "false"

\* tenant_id = (SELECT current_setting('app.current_tenant_id', true)::integer)
TenantMatches(tid, c) == SqlEq(Some(tid), CastInteger(c))

\* a policy expression, for a row with tenant_id tid under context c
EvalExpr(kind, tid, c) ==
    CASE kind = "true" -> "true"
      [] kind = "eq" -> TenantMatches(tid, c)
      [] kind = "eq_or_unset" -> SqlOr(TenantMatches(tid, c), SqlIsNull(c))
      [] OTHER -> "false"

Policy(tbl, name, cmd, using, check) ==
    [tbl |-> tbl, name |-> name, cmd |-> cmd, using |-> using, check |-> check]

\* the statements Command.handle executes, in order
SetupStatements ==
    << [op |-> "enable", tbl |-> TenantTable],
       [op |-> "drop", tbl |-> TenantTable, name |-> "tenant_all_access"],
       [op |-> "create", p |-> Policy(TenantTable, "tenant_all_access", "ALL", "true", "none")],
       [op |-> "enable", tbl |-> ProfileTable],
       [op |-> "drop", tbl |-> ProfileTable, name |-> "profile_tenant_isolation"],
       [op |-> "drop", tbl |-> ProfileTable, name |-> "profile_tenant_select"],
       [op |-> "drop", tbl |-> ProfileTable, name |-> "profile_tenant_insert"],
       [op |-> "drop", tbl |-> ProfileTable, name |-> "profile_tenant_update"],
       [op |-> "drop", tbl |-> ProfileTable, name |-> "profile_tenant_delete"],
       [op |-> "create", p |-> Policy(ProfileTable, "profile_tenant_select", "SELECT", "eq_or_unset", "none")],
       [op |-> "create", p |-> Policy(ProfileTable, "profile_tenant_insert", "INSERT", "none", "eq")],
       [op |-> "create", p |-> Policy(ProfileTable, "profile_tenant_update", "UPDATE", "eq", "eq")],
       [op |-> "create", p |-> Policy(ProfileTable, "profile_tenant_delete", "DELETE", "eq", "none")] >>

\* the policies the CREATE POLICY statements declare
DeclaredPolicies ==
    {SetupStatements[i].p :
        i \in {j \in DOMAIN SetupStatements : SetupStatements[j].op = "create"}}

\* the single policy of an earlier installation, which line 35 still drops
LegacyPolicy == Policy(ProfileTable, "profile_tenant_isolation", "ALL", "eq", "none")

\* the catalogs the command can be started on: nothing installed, the
\* declared policies installed, the legacy policy installed
Installed(ps) ==
    [rls |-> [t \in Tables |-> \E p \in ps : p.tbl = t], policies |-> ps]
StartCatalogs ==
    {Installed({}), Installed(DeclaredPolicies),
     Installed({p \in DeclaredPolicies : p.tbl = TenantTable} \cup {LegacyPolicy})}

\* a DDL statement where DROP POLICY IF EXISTS removes nothing
ExecDdlKeep(d, s) ==
    CASE s.op = "enable" -> [d EXCEPT !.rls[s.tbl] = TRUE]
      [] s.op = "drop" -> d
      [] OTHER ->
            IF \E p \in d.policies : p.tbl = s.p.tbl /\ p.name = s.p.name
            THEN [d EXCEPT !.ok = FALSE]
            ELSE [d EXCEPT !.policies = @ \cup {s.p}]

\* one DDL statement on the catalog d = [rls, policies, ok]; CREATE POLICY
\* fails when the table already has a policy of that name
ExecDdl(d, s) ==
    CASE s.op = "enable" -> [d EXCEPT !.rls[s.tbl] = TRUE]
      [] s.op = "drop" ->
            [d EXCEPT !.policies = {p \in @ : ~(p.tbl = s.tbl /\ p.name = s.name)}]
      [] OTHER ->
            IF \E p \in d.policies : p.tbl = s.p.tbl /\ p.name = s.p.name
            THEN [d EXCEPT !.ok = FALSE]
            ELSE [d EXCEPT !.policies = @ \cup {s.p}]

RECURSIVE RunDdl(_, _)
RunDdl(d, ss) ==
    IF ss = <<>> \/ ~d.ok THEN d ELSE RunDdl(ExecDdl(d, Head(ss)), Tail(ss))

\* the policies of a table that apply to a command
Applicable(tbl, cmd) == {p \in policies : p.tbl = tbl /\ p.cmd \in {cmd, "ALL"}}

\* USING: may the existing row be seen / touched by the command
PassesUsing(tbl, cmd, tid, c) ==
    rls[tbl] => \E p \in Applicable(tbl, cmd) : EvalExpr(p.using, tid, c) = "true"

\* WITH CHECK (the USING expression when a policy declares none)
PassesCheck(tbl, cmd, tid, c) ==
    rls[tbl] => \E p \in Applicable(tbl, cmd) :
        EvalExpr(IF p.check = "none" THEN p.using ELSE p.check, tid, c) = "true"

RowsOf(tbl) == {r \in rows : r.tbl = tbl}
IdsOf(tbl) == {r.id : r \in RowsOf(tbl)}
RowIds == 1..MaxRows

\* ------------------------------------------------------------- propagator
Faults == {"none", "resolve", "execute"}
Responses == {200, 302}
NoResponse == 0
NoRead == <<>>

IsAuthenticated(u) == u # Anonymous

\* request.user.profile: the users_profile row of the user, read on the
\* request's connection
ProfileRows(w, u) ==
    {r \in RowsOf(ProfileTable) :
        r.id = u /\ PassesUsing(ProfileTable, "SELECT", r.tenant, CurrentSetting(conn[w]))}

\* the exception lines 25-38 raise: fault "resolve" is a storage error in the
\* profile query, fault "execute" a storage error in cursor.execute
Exception(w, u, fault) ==
    IF ~IsAuthenticated(u) THEN "none"
    ELSE IF fault = "resolve" THEN "DatabaseError"
    ELSE IF ProfileRows(w, u) = {} THEN "RelatedObjectDoesNotExist"
    ELSE IF fault = "execute" THEN "DatabaseError"
    ELSE "none"

\* the binding the principal resolves to (profile.tenant_id), if any
Resolved(w, u, fault) ==
    IF IsAuthenticated(u) /\ fault # "resolve" /\ ProfileRows(w, u) # {}
    THEN Some((CHOOSE r \in ProfileRows(w, u) : TRUE).tenant) ELSE Unset

\* a propagator that assigns '0' when the principal has no binding
GuessedAssignments(w, u, fault) ==
    IF Resolved(w, u, fault) = Unset THEN <<Str(0)>>
    ELSE IF fault = "execute" THEN <<>> ELSE <<Str(Resolved(w, u, fault)[1])>>

\* the assignments of app.current_tenant_id that lines 33-38 carry out
Assignments(w, u, fault) ==
    IF Resolved(w, u, fault) = Unset \/ fault = "execute" THEN <<>>
    ELSE <<Str(Resolved(w, u, fault)[1])>>

\* a handler that catches only the missing binding
CaughtMissingBindingOnly(e) == e = "RelatedObjectDoesNotExist"

\* except (AttributeError, Exception) at line 39, except Exception at line 47
Caught(e) == e \in {"RelatedObjectDoesNotExist", "DatabaseError"}

RECURSIVE ExecuteAll(_, _)
ExecuteAll(c, vs) ==
    IF vs = <<>> THEN c ELSE ExecuteAll(ExecuteAutocommit(c, Head(vs)), Tail(vs))

InitReq ==
    [user |-> Anonymous, tenant |-> Unset, exc |-> "none", executed |-> <<>>,
     read |-> NoRead, prev |-> Unset, calls |-> 0, resp |-> NoResponse,
     ret |-> NoResponse, raised |-> FALSE]

\* the value the last request on the connection assigned, if it assigned one
LastAssigned(w) ==
    IF req[w].executed = <<>> THEN Unset
    ELSE Some(req[w].executed[Len(req[w].executed)])

\* TenantContextMiddleware.__call__, lines 22-52: set the context, then enter
\* get_response
MiddlewareCall(w, u, fault) ==
    /\ pc[w] = "idle"
    /\ fault = "resolve" => IsAuthenticated(u)
    /\ fault = "execute" => Resolved(w, u, "none") # Unset
    /\ LET e == Exception(w, u, fault)
           entered == e = "none" \/ Caught(e)
           r == [InitReq EXCEPT !.user = u, !.tenant = Resolved(w, u, fault),
                                !.exc = e, !.executed = Assignments(w, u, fault),
                                !.prev = LastAssigned(w)]
       IN /\ conn' = [conn EXCEPT ![w] = ExecuteAll(conn[w], Assignments(w, u, fault))]
          /\ pc' = [pc EXCEPT ![w] = IF entered THEN "handler" ELSE "idle"]
          /\ req' = [req EXCEPT ![w] =
                IF entered THEN [r EXCEPT !.calls = 1] ELSE [r EXCEPT !.raised = TRUE]]
    /\ UNCHANGED <<dbVars, appVars>>

\* a query of the downstream handler on the request's connection
HandlerRead(w) ==
    /\ pc[w] = "handler"
    /\ req' = [req EXCEPT ![w].read = Some(CurrentSetting(conn[w]))]
    /\ UNCHANGED <<conn, pc, dbVars, appVars>>

\* lines 52-53: get_response returns r and the propagator returns it
Respond(w, r) ==
    /\ pc[w] = "handler"
    /\ pc' = [pc EXCEPT ![w] = "idle"]
    /\ req' = [req EXCEPT ![w].resp = r, ![w].ret = r, ![w].user = Anonymous,
                          ![w].tenant = Unset, ![w].read = NoRead, ![w].prev = Unset]
    /\ UNCHANGED <<conn, dbVars, appVars>>

\* ------------------------------------------------------------ setup_rls
\* Command.handle of setup_rls, in autocommit: every statement that ran before
\* a failing one stays in effect
SetupRls ==
    /\ runs < MaxRuns
    /\ LET d == RunDdl([rls |-> rls, policies |-> policies, ok |-> TRUE], SetupStatements)
       IN /\ rls' = d.rls
          /\ policies' = d.policies
          /\ stmt' = [op |-> "setup_rls", ok |-> d.ok]
          /\ runs' = IF d.ok THEN runs + 1 ELSE runs
    /\ UNCHANGED <<reqVars, rows, appVars>>

\* ------------------------------------- statements on tenant-scoped tables
NewId(tbl) ==
    LET free == (IF tbl = ProfileTable THEN Users ELSE RowIds) \ IdsOf(tbl)
    IN CHOOSE i \in free : \A j \in free : i <= j

\* SELECT * FROM tbl
DbSelect(w, tbl) ==
    LET c == CurrentSetting(conn[w])
    IN /\ stmt' = [op |-> "select", tbl |-> tbl, ctx |-> c, ok |-> TRUE,
                   out |-> {r \in RowsOf(tbl) : PassesUsing(tbl, "SELECT", r.tenant, c)}]
       /\ UNCHANGED <<reqVars, rows, rls, policies, runs, appVars>>

\* INSERT INTO tbl (tenant_id) VALUES (t)
DbInsert(w, tbl, t) ==
    LET c == CurrentSetting(conn[w])
        ok == PassesCheck(tbl, "INSERT", t, c)
        after == IF ok THEN rows \cup {[tbl |-> tbl, id |-> NewId(tbl), tenant |-> t]}
                 ELSE rows
    IN /\ Cardinality(rows) < MaxRows
       /\ (IF tbl = ProfileTable THEN Users ELSE RowIds) \ IdsOf(tbl) # {}
       /\ rows' = after
       /\ stmt' = [op |-> "insert", tbl |-> tbl, ctx |-> c, ok |-> ok, new |-> t,
                   changed |-> after # rows]
       /\ UNCHANGED <<reqVars, rls, policies, runs, appVars>>

\* UPDATE tbl SET tenant_id = t WHERE id = r.id
DbUpdate(w, r, t) ==
    LET c == CurrentSetting(conn[w])
        ok == /\ PassesUsing(r.tbl, "UPDATE", r.tenant, c)
              /\ PassesCheck(r.tbl, "UPDATE", t, c)
        after == IF ok THEN (rows \ {r}) \cup {[r EXCEPT !.tenant = t]} ELSE rows
    IN /\ r \in rows
       /\ rows' = after
       /\ stmt' = [op |-> "update", tbl |-> r.tbl, ctx |-> c, ok |-> ok,
                   old |-> r.tenant, new |-> t, changed |-> after # rows]
       /\ UNCHANGED <<reqVars, rls, policies, runs, appVars>>

\* DELETE FROM tbl WHERE id = r.id
DbDelete(w, r) ==
    LET c == CurrentSetting(conn[w])
        ok == PassesUsing(r.tbl, "DELETE", r.tenant, c)
        after == IF ok THEN rows \ {r} ELSE rows
    IN /\ r \in rows
       /\ rows' = after
       /\ stmt' = [op |-> "delete", tbl |-> r.tbl, ctx |-> c, ok |-> ok,
                   old |-> r.tenant, changed |-> after # rows]
       /\ UNCHANGED <<reqVars, rls, policies, runs, appVars>>

\* ------------------------------------------------ project and feature views
ProjectTable == "projects_project"
FeatureTable == "projects_feature"
RequirementTable == "projects_requirement"
ScenarioTable == "projects_qualityattributescenario"
ItemTables == {RequirementTable, ScenarioTable}

ProjectIds == 1..MaxStored
FeatureIds == 1..MaxStored
ItemIds == 1..MaxItems
NoParent == 0
NoForm == [op |-> "none"]

\* what a form can carry in its name and slug fields
FormNames == {<<"A">>, <<"!">>}
FormSlugs == {Empty, <<"a", "-", "1">>}

Views ==
    {"project_list", "project_detail", "project_create", "project_update",
     "project_delete", "feature_list", "feature_detail", "feature_create",
     "feature_update", "feature_delete"}

\* the tenants of a set of rows
Owners(rs) == {r.tenant : r \in rs}

\* the response of a view: gate is what the login and profile tests found,
\* tenant the requester's tenant, owners the tenants of the rows the request
\* returned, modified or deleted, wrote whether it changed a table
Response(view, gate, t, status, owners, wrote) ==
    [view |-> view, gate |-> gate, tenant |-> t, status |-> status,
     owners |-> owners, wrote |-> wrote]

\* a query on the request's connection sees the rows the policies let through
Readable(w, tbl, rs) ==
    {r \in rs : PassesUsing(tbl, "SELECT", r.tenant, CurrentSetting(conn[w]))}

\* request.user.profile.tenant, when hasattr(request.user, "profile")
ProfileTenant(w, u) ==
    IF ProfileRows(w, u) = {} THEN Unset
    ELSE Some((CHOOSE r \in ProfileRows(w, u) : TRUE).tenant)

\* @login_required, then the hasattr(request.user, "profile") test each view
\* starts with
Gate(w, u) ==
    IF ~IsAuthenticated(u) THEN "login"
    ELSE IF ProfileTenant(w, u) = Unset THEN "profile" ELSE "ok"

\* a view that fails where it should redirect
Crashed(view, gate) == Response(view, gate, Unset, 500, {}, FALSE)

\* redirect to the login page or to users:profile
Redirected(view, gate) == Response(view, gate, Unset, 302, {}, FALSE)

\* Model.objects.filter(tenant=tenant)
ProjectsOf(w, t) == {p \in Readable(w, ProjectTable, projects) : p.tenant = t}
FeaturesOf(w, t) == {f \in Readable(w, FeatureTable, features) : f.tenant = t}

\* select_related("project", "parent"): the rows the foreign keys point to
RelatedProjects(fs) == {p \in projects : \E f \in fs : f.project = p.id}
RelatedParents(fs) == {g \in features : \E f \in fs : f.parent = g.id}

\* feature.requirements.all() and feature.quality_attributes.all()
ItemsOf(w, fs) ==
    {i \in items : (\E f \in fs : i.feature = f.id)
                   /\ i \in Readable(w, i.tbl, {i})}

\* a delete that stops at the rows it was given
Shallow(fs) == fs

\* on_delete=CASCADE along Feature.parent
RECURSIVE Subtree(_)
Subtree(fs) ==
    LET more == fs \cup {f \in features : \E g \in fs : f.parent = g.id}
    IN IF more = fs THEN fs ELSE Subtree(more)

Free(ids, rs) == ids \ {r.id : r \in rs}
Least(ids) == CHOOSE i \in ids : \A j \in ids : i <= j

viewFrame == <<reqVars, dbVars, tenants, accounts, command>>

\* project_list, lines 13-27
ProjectList(w, u) ==
    /\ form[w] = NoForm
    /\ out' = IF Gate(w, u) # "ok" THEN Redirected("project_list", Gate(w, u))
              ELSE LET t == ProfileTenant(w, u)
                   IN Response("project_list", "ok", t, 200,
                               Owners(ProjectsOf(w, t[1])), FALSE)
    /\ UNCHANGED <<viewFrame, projects, features, items, form>>

\* project_detail, lines 30-60
ProjectDetail(w, u, pk) ==
    /\ form[w] = NoForm
    /\ out' = IF Gate(w, u) # "ok" THEN Redirected("project_detail", Gate(w, u))
              ELSE LET t == ProfileTenant(w, u)
                       ps == {p \in ProjectsOf(w, t[1]) : p.id = pk}
                       fs == {f \in FeaturesOf(w, t[1]) : f.project = pk}
                   IN IF ps = {} THEN Response("project_detail", "ok", t, 404, {}, FALSE)
                      ELSE Response("project_detail", "ok", t, 200,
                                    Owners(ps)
                                    \cup Owners(fs \cup RelatedParents(fs)),
                                    FALSE)
    /\ UNCHANGED <<viewFrame, projects, features, items, form>>

\* ProjectForm.clean_slug, lines 43-47: the submitted slug, or the slugified name
CleanSlug(name, slug) == IF slug = Empty THEN Slugify(name) ELSE slug

\* ProjectForm.clean_slug, lines 50-56: a project of the tenant, other than the
\* one being edited, has the slug
SlugTaken(w, t, slug, pk) ==
    \E p \in ProjectsOf(w, t) : p.slug = slug /\ p.id # pk

\* a table without the unique constraint
Unconstrained(ps) == TRUE

\* unique_together = [["tenant", "slug"]]
UniqueTogether(ps) ==
    \A p, q \in ps : (p.tenant = q.tenant /\ p.slug = q.slug) => p = q

InFlight(op) == {w \in Workers : form[w].op = op}

\* ids of projects stored before the requests that are followed
EarlierIds == {MaxStored + 1, MaxStored + 2}

\* project and feature rows the followed requests stored or are about to
Stored ==
    Cardinality({p \in projects : p.id \in ProjectIds}) + Cardinality(features)
    + Cardinality(InFlight("project_create"))

\* project_create, lines 63-84, POST, up to form.is_valid()
ProjectCreatePost(w, u, name, slug) ==
    /\ form[w] = NoForm
    /\ Stored < MaxStored
    /\ IF Gate(w, u) # "ok"
       THEN out' = Redirected("project_create", Gate(w, u)) /\ form' = form
       ELSE LET t == ProfileTenant(w, u)
                c == CleanSlug(name, slug)
            IN IF SlugTaken(w, t[1], c, 0)
               THEN /\ out' = Response("project_create", "ok", t, 200, {}, FALSE)
                    /\ form' = form
               ELSE /\ out' = out
                    /\ form' = [form EXCEPT ![w] =
                          [op |-> "project_create", user |-> u, tenant |-> t[1],
                           slug |-> c, pk |-> 0]]
    /\ UNCHANGED <<viewFrame, projects, features, items>>

\* project_update, lines 87-113, POST, up to form.is_valid(); the slug field is
\* required when the form edits a stored project (forms.py line 39)
ProjectUpdatePost(w, u, pk, name, slug) ==
    /\ form[w] = NoForm
    /\ IF Gate(w, u) # "ok"
       THEN out' = Redirected("project_update", Gate(w, u)) /\ form' = form
       ELSE LET t == ProfileTenant(w, u)
                ps == {p \in ProjectsOf(w, t[1]) : p.id = pk}
            IN IF ps = {}
               THEN /\ out' = Response("project_update", "ok", t, 404, {}, FALSE)
                    /\ form' = form
               ELSE IF slug = Empty \/ SlugTaken(w, t[1], slug, pk)
               THEN /\ out' = Response("project_update", "ok", t, 200,
                                       Owners(ps), FALSE)
                    /\ form' = form
               ELSE /\ out' = out
                    /\ form' = [form EXCEPT ![w] =
                          [op |-> "project_update", user |-> u, tenant |-> t[1],
                           slug |-> slug, pk |-> pk]]
    /\ UNCHANGED <<viewFrame, projects, features, items>>

\* ProjectForm.save and Project.save, forms.py lines 60-68, models.py lines
\* 37-40, then the redirect: the row is stored with the saver's tenant; an
\* UPDATE that matches no row becomes an INSERT; the unique constraint of the
\* table refuses a second (tenant, slug)
ProjectSave(w) ==
    /\ form[w].op \in {"project_create", "project_update"}
    /\ LET f == form[w]
           id == IF f.pk = 0 THEN Least(Free(ProjectIds, projects)) ELSE f.pk
           row == [id |-> id, tenant |-> f.tenant, slug |-> f.slug,
                   created_by |-> f.user]
           after == {p \in projects : p.id # id} \cup {row}
       IN IF UniqueTogether(after)
          THEN /\ projects' = after
               /\ out' = Response(f.op, "ok", Some(f.tenant), 302,
                                  {row.tenant}, TRUE)
          ELSE /\ projects' = projects
               /\ out' = Response(f.op, "ok", Some(f.tenant), 500, {}, FALSE)
    /\ form' = [form EXCEPT ![w] = NoForm]
    /\ UNCHANGED <<viewFrame, features, items>>

\* project_delete, lines 116-133: POST deletes the project and, by
\* on_delete=CASCADE, its features, their subtrees and their items
ProjectDelete(w, u, pk, method) ==
    /\ form[w] = NoForm
    /\ IF Gate(w, u) # "ok"
       THEN /\ out' = Redirected("project_delete", Gate(w, u))
            /\ UNCHANGED <<projects, features, items>>
       ELSE LET t == ProfileTenant(w, u)
                ps == {p \in ProjectsOf(w, t[1]) : p.id = pk}
                fs == Subtree({f \in features : f.project = pk})
                is == {i \in items : \E f \in fs : i.feature = f.id}
            IN IF ps = {}
               THEN /\ out' = Response("project_delete", "ok", t, 404, {}, FALSE)
                    /\ UNCHANGED <<projects, features, items>>
               ELSE IF method = "GET"
               THEN /\ out' = Response("project_delete", "ok", t, 200,
                                       Owners(ps), FALSE)
                    /\ UNCHANGED <<projects, features, items>>
               ELSE /\ projects' = projects \ ps
                    /\ features' = features \ fs
                    /\ items' = items \ is
                    /\ out' = Response("project_delete", "ok", t, 302,
                                       Owners(ps) \cup Owners(fs)
                                       \cup Owners(is), TRUE)
    /\ UNCHANGED <<viewFrame, form>>

\* feature_list, lines 136-166 (no project_pk)
FeatureList(w, u) ==
    /\ form[w] = NoForm
    /\ out' = IF Gate(w, u) # "ok" THEN Redirected("feature_list", Gate(w, u))
              ELSE LET t == ProfileTenant(w, u)
                       fs == FeaturesOf(w, t[1])
                   IN Response("feature_list", "ok", t, 200,
                               Owners(fs \cup RelatedParents(fs))
                               \cup Owners(RelatedProjects(fs)), FALSE)
    /\ UNCHANGED <<viewFrame, projects, features, items, form>>

\* feature_detail, lines 169-195
FeatureDetail(w, u, pk) ==
    /\ form[w] = NoForm
    /\ out' = IF Gate(w, u) # "ok" THEN Redirected("feature_detail", Gate(w, u))
              ELSE LET t == ProfileTenant(w, u)
                       fs == {f \in FeaturesOf(w, t[1]) : f.id = pk}
                   IN IF fs = {} THEN Response("feature_detail", "ok", t, 404, {}, FALSE)
                      ELSE Response("feature_detail", "ok", t, 200,
                                    Owners(fs \cup RelatedParents(fs))
                                    \cup Owners(RelatedProjects(fs))
                                    \cup Owners(ItemsOf(w, fs)), FALSE)
    /\ UNCHANGED <<viewFrame, projects, features, items, form>>

\* a project field that offers every stored project
AnyProject(w, t) == {p.id : p \in projects}

\* FeatureForm.__init__, lines 124-126: the projects the form accepts
ProjectChoices(w, t) == {p.id : p \in ProjectsOf(w, t)}

\* FeatureForm.__init__, lines 127 and 138-141: the parents the form accepts
ParentChoices(w, t, pk) == {f.id : f \in {g \in FeaturesOf(w, t) : g.id # pk}}

\* ModelChoiceField validation of the two references
FeatureFormValid(w, t, pk, project, parent) ==
    /\ project \in ProjectChoices(w, t)
    /\ parent # NoParent => parent \in ParentChoices(w, t, pk)

\* feature_create, lines 198-229, POST (no project_pk), with FeatureForm.save
FeatureCreate(w, u, project, parent) ==
    /\ form[w] = NoForm
    /\ Stored < MaxStored
    /\ IF Gate(w, u) # "ok"
       THEN out' = Redirected("feature_create", Gate(w, u)) /\ features' = features
       ELSE LET t == ProfileTenant(w, u)
                row == [id |-> Least(Free(FeatureIds, features)), tenant |-> t[1],
                        project |-> project, parent |-> parent, created_by |-> u]
            IN IF FeatureFormValid(w, t[1], 0, project, parent)
               THEN /\ features' = features \cup {row}
                    /\ out' = Response("feature_create", "ok", t, 302,
                                       {row.tenant}, TRUE)
               ELSE /\ features' = features
                    /\ out' = Response("feature_create", "ok", t, 200, {}, FALSE)
    /\ UNCHANGED <<viewFrame, projects, items, form>>

\* feature_update, lines 232-267, POST, with FeatureForm.save
FeatureUpdate(w, u, pk, project, parent) ==
    /\ form[w] = NoForm
    /\ IF Gate(w, u) # "ok"
       THEN out' = Redirected("feature_update", Gate(w, u)) /\ features' = features
       ELSE LET t == ProfileTenant(w, u)
                fs == {f \in FeaturesOf(w, t[1]) : f.id = pk}
                row == [id |-> pk, tenant |-> t[1], project |-> project,
                        parent |-> parent, created_by |-> u]
            IN IF fs = {}
               THEN /\ features' = features
                    /\ out' = Response("feature_update", "ok", t, 404, {}, FALSE)
               ELSE IF FeatureFormValid(w, t[1], pk, project, parent)
               THEN /\ features' = (features \ fs) \cup {row}
                    /\ out' = Response("feature_update", "ok", t, 302,
                                       Owners(fs), TRUE)
               ELSE /\ features' = features
                    /\ out' = Response("feature_update", "ok", t, 200,
                                       Owners(fs), FALSE)
    /\ UNCHANGED <<viewFrame, projects, items, form>>

\* feature_delete, lines 270-288: POST deletes the feature, its subtree and
\* their items
FeatureDelete(w, u, pk, method) ==
    /\ form[w] = NoForm
    /\ IF Gate(w, u) # "ok"
       THEN /\ out' = Redirected("feature_delete", Gate(w, u))
            /\ UNCHANGED <<features, items>>
       ELSE LET t == ProfileTenant(w, u)
                fs == {f \in FeaturesOf(w, t[1]) : f.id = pk}
                gone == Subtree(fs)
                is == {i \in items : \E f \in gone : i.feature = f.id}
            IN IF fs = {}
               THEN /\ out' = Response("feature_delete", "ok", t, 404, {}, FALSE)
                    /\ UNCHANGED <<features, items>>
               ELSE IF method = "GET"
               THEN /\ out' = Response("feature_delete", "ok", t, 200,
                                       Owners(fs), FALSE)
                    /\ UNCHANGED <<features, items>>
               ELSE /\ features' = features \ gone
                    /\ items' = items \ is
                    /\ out' = Response("feature_delete", "ok", t, 302,
                                       Owners(gone)
                                       \cup Owners(is), TRUE)
    /\ UNCHANGED <<viewFrame, projects, form>>

\* ------------------------------------------------------------- admin site
\* ProjectAdmin: the change form lists tenant among its editable fields; the
\* form's validate_unique and the table's constraint refuse a taken
\* (tenant, slug)
AdminProjectChange(pk, t) ==
    /\ \E p \in projects :
          /\ p.id = pk
          /\ LET after == (projects \ {p}) \cup {[p EXCEPT !.tenant = t]}
             IN IF UniqueTogether(after)
                THEN /\ projects' = after
                     /\ out' = Response("admin", "ok", Unset, 302,
                                        {p.tenant, t}, TRUE)
                ELSE /\ projects' = projects
                     /\ out' = Response("admin", "ok", Unset, 200, {}, FALSE)
    /\ UNCHANGED <<viewFrame, features, items, form>>

\* RequirementAdmin and QualityAttributeScenarioAdmin: the add form takes
\* tenant and feature as two independent fields
AdminItemAdd(tbl, t, f) ==
    /\ Cardinality(items) < MaxItems
    /\ f \in {g.id : g \in features}
    /\ LET row == [tbl |-> tbl, id |-> Least(Free(ItemIds, items)), tenant |-> t,
                   feature |-> f]
       IN /\ items' = items \cup {row}
          /\ out' = Response("admin", "ok", Unset, 302, {row.tenant}, TRUE)
    /\ UNCHANGED <<viewFrame, projects, features, form>>

\* ------------------------------------------------------------------ tenants
TenantSlugs == {t.slug : t \in tenants}
Emails == {<<"x">>, <<"y">>}

\* a users_tenant table without the unique index
AnySlug(slug) == TRUE

\* slug = models.SlugField(unique=True): may a row with this slug be stored
SlugFree(slug) == slug \notin TenantSlugs

\* SignupForm.clean_organization_slug, lines 88-93: the while loop
RECURSIVE Probe(_, _, _)
Probe(slug, base, counter) ==
    IF slug \in TenantSlugs THEN Probe(Suffixed(base, counter), base, counter + 1)
    ELSE slug

\* SignupForm.clean_organization_slug, lines 77-95
CleanOrganizationSlug(name, slug) ==
    LET base == IF slug = Empty THEN Slugify(name) ELSE slug
    IN IF base # Empty THEN Probe(base, base, 1) ELSE base

\* tenant and user rows stored or about to be
TenantsDue ==
    Cardinality(tenants) + Cardinality(InFlight("signup"))
    + (IF command = NoForm THEN 0 ELSE 1)
AccountsDue == Cardinality(accounts) + Cardinality(InFlight("signup"))

\* an e-mail test that finds no user
EmailUnknown(email) == FALSE

\* SignupForm.clean_email, lines 71-75: User.objects.filter(email=email).exists()
EmailExists(email) == \E a \in accounts : a.email = email

signupFrame == <<conn, pc, req, rls, policies, runs, stmt, projects, features, items>>

\* signup_view, lines 11-37, POST by an unauthenticated principal, up to
\* form.is_valid(): clean_email, then clean_organization_slug
SignupPost(w, email, name, slug) ==
    /\ form[w] = NoForm
    /\ TenantsDue < MaxTenant
    /\ AccountsDue < MaxUser
    /\ IF EmailExists(email)
       THEN /\ out' = Response("signup", "anonymous", Unset, 200, {}, FALSE)
            /\ form' = form
       ELSE /\ out' = out
            /\ form' = [form EXCEPT ![w] =
                  [op |-> "signup", email |-> email, name |-> name,
                   base |-> IF slug = Empty THEN Slugify(name) ELSE slug,
                   slug |-> CleanOrganizationSlug(name, slug)]]
    /\ UNCHANGED <<signupFrame, rows, tenants, accounts, command>>

\* SignupForm.save, lines 97-120, in autocommit: user.save(), then
\* Tenant.objects.create, then Profile.objects.create; what was stored before
\* a failing statement stays stored
SignupSave(w) ==
    /\ form[w].op = "signup"
    /\ LET f == form[w]
           uid == Least(Free(Users, accounts))
           tid == Least(Free(TenantIds, tenants))
           admitted == PassesCheck(ProfileTable, "INSERT", tid, CurrentSetting(conn[w]))
       IN /\ accounts' = accounts \cup {[id |-> uid, email |-> f.email]}
          /\ IF ~SlugFree(f.slug)
             THEN /\ tenants' = tenants
                  /\ rows' = rows
                  /\ out' = Response("signup", "anonymous", Unset, 500, {}, TRUE)
             ELSE /\ tenants' = tenants \cup
                        {[id |-> tid, name |-> f.name, slug |-> f.slug, active |-> TRUE]}
                  /\ rows' = IF admitted
                             THEN rows \cup {[tbl |-> ProfileTable, id |-> uid, tenant |-> tid]}
                             ELSE rows
                  /\ out' = Response("signup", "anonymous", Some(tid),
                                     IF admitted THEN 302 ELSE 500, {tid}, TRUE)
    /\ form' = [form EXCEPT ![w] = NoForm]
    /\ UNCHANGED <<signupFrame, command>>

\* str() of the default of a field declared without one, which line 40 takes
\* for the slug
NotProvided == <<"<class 'django.db.models.fields.NOT_PROVIDED'>">>

\* create_tenant, lines 35-43: the slug the command goes on with
CommandSlug(name, slug) == IF slug # Empty THEN slug ELSE NotProvided

\* create_tenant started with its arguments, lines 33-36
CreateTenantStart(name, slug, inactive) ==
    /\ command = NoForm
    /\ TenantsDue < MaxTenant
    /\ command' = [op |-> "create_tenant", at |-> "check", name |-> name,
               requested |-> slug, slug |-> CommandSlug(name, slug),
               active |-> ~inactive]
    /\ UNCHANGED <<signupFrame, rows, tenants, accounts, form, out>>

\* a duplicate check that finds nothing
NeverExists(slug) == FALSE

\* create_tenant, line 46: Tenant.objects.filter(slug=slug).exists()
SlugExists(slug) == slug \in TenantSlugs

\* create_tenant, lines 45-47: the duplicate check
CreateTenantCheck ==
    /\ command # NoForm
    /\ command.at = "check"
    /\ IF SlugExists(command.slug)
       THEN /\ command' = NoForm
            /\ out' = Response("create_tenant", "CommandError", Unset, 1, {}, FALSE)
       ELSE /\ command' = [command EXCEPT !.at = "create"]
            /\ out' = out
    /\ UNCHANGED <<signupFrame, rows, tenants, accounts, form>>

\* create_tenant, lines 49-64: Tenant.objects.create and the report; handle
\* returns the Tenant, which BaseCommand.execute passes to stdout.write, so
\* the run ends in an AttributeError after the row is committed
CreateTenantCreate ==
    /\ command # NoForm
    /\ command.at = "create"
    /\ LET tid == Least(Free(TenantIds, tenants))
       IN IF SlugFree(command.slug)
          THEN /\ tenants' = tenants \cup
                     {[id |-> tid, name |-> command.name, slug |-> command.slug,
                       active |-> command.active]}
               /\ out' = Response("create_tenant", "AttributeError", Some(tid), 1,
                                  {tid}, TRUE)
          ELSE /\ tenants' = tenants
               /\ out' = Response("create_tenant", "IntegrityError", Unset, 1, {}, FALSE)
    /\ command' = NoForm
    /\ UNCHANGED <<signupFrame, rows, accounts, form>>

\* Tenant.objects.create(name=..., slug=...) called directly
TenantCreate(name, slug) ==
    /\ TenantsDue < MaxTenant
    /\ LET tid == Least(Free(TenantIds, tenants))
       IN IF SlugFree(slug)
          THEN /\ tenants' = tenants \cup
                     {[id |-> tid, name |-> name, slug |-> slug, active |-> TRUE]}
               /\ out' = Response("tenant_create", "ok", Some(tid), 0, {tid}, TRUE)
          ELSE /\ tenants' = tenants
               /\ out' = Response("tenant_create", "IntegrityError", Unset, 1, {}, FALSE)
    /\ UNCHANGED <<signupFrame, rows, accounts, form, command>>

\* ---------------------------------------------------------- specifications
NoPolicies ==
    /\ rls = [t \in Tables |-> FALSE]
    /\ policies = {}
    /\ runs = 0
    /\ stmt = [op |-> "none"]

\* the tenants and users the bindings refer to, and no project data
TenantName(t) == <<"T">> \o Decimal(t)
SeedTenants ==
    {[id |-> t, name |-> TenantName(t), slug |-> Slugify(TenantName(t)),
      active |-> TRUE] : t \in TenantIds}
SeedAccounts == {[id |-> u, email |-> <<"u">> \o Decimal(u)] : u \in Users}
NoResponseYet == Response("none", "ok", Unset, NoResponse, {}, FALSE)
NoProjectData ==
    /\ tenants = SeedTenants
    /\ accounts = SeedAccounts
    /\ projects = {}
    /\ features = {}
    /\ items = {}
    /\ form = [w \in Workers |-> NoForm]
    /\ command = NoForm
    /\ out = NoResponseYet

\* requests of principals, bound or not, on the workers' connections
Init ==
    /\ conn = [w \in Workers |-> FreshConnection]
    /\ pc = [w \in Workers |-> "idle"]
    /\ req = [w \in Workers |-> InitReq]
    /\ \E f \in [Users -> TenantIds \cup {NoProfile}] :
          rows = {[tbl |-> ProfileTable, id |-> u, tenant |-> f[u]] :
                    u \in {v \in Users : f[v] # NoProfile}}
    /\ NoPolicies
    /\ NoProjectData

\* the connection under observation: successive requests are served on it
Session == CHOOSE w \in Workers : TRUE

Next ==
    \/ \E u \in Principals, fault \in Faults : MiddlewareCall(Session, u, fault)
    \/ HandlerRead(Session)
    \/ \E r \in Responses : Respond(Session, r)

Spec == Init /\ [][Next]_vars

\* the policy set: statements under every connection context
InitRls ==
    /\ \E c \in Contexts : conn = [w \in Workers |-> [session |-> c, local |-> Unset]]
    /\ pc = [w \in Workers |-> "idle"]
    /\ req = [w \in Workers |-> InitReq]
    /\ rows = {}
    /\ \E d \in StartCatalogs : rls = d.rls /\ policies = d.policies
    /\ runs = 0
    /\ stmt = [op |-> "none"]
    /\ NoProjectData

NextRls ==
    \/ SetupRls
    \/ \E tbl \in TenantScopedTables : DbSelect(Session, tbl)
    \/ \E tbl \in TenantScopedTables, t \in TenantIds : DbInsert(Session, tbl, t)
    \/ \E r \in rows, t \in TenantIds : DbUpdate(Session, r, t)
    \/ \E r \in rows : DbDelete(Session, r)

SpecRls == InitRls /\ [][NextRls]_vars

\* the forms that create and update projects and features, submitted by every
\* principal; every user has the profile of the tenant it signed up for, but
\* for at most one user that has none
Methods == {"GET", "POST"}
HomeTenant(u) == ((u - 1) % MaxTenant) + 1

Deployed(cs, ns) ==
    /\ \E c \in cs : conn = [w \in Workers |-> [session |-> c, local |-> Unset]]
    /\ pc = [w \in Workers |-> "idle"]
    /\ req = [w \in Workers |-> InitReq]
    /\ \E n \in ns :
          rows = {[tbl |-> ProfileTable, id |-> u, tenant |-> HomeTenant(u)] :
                    u \in Users \ {n}}
    /\ rls = Installed(DeclaredPolicies).rls
    /\ policies = DeclaredPolicies
    /\ runs = 0
    /\ stmt = [op |-> "none"]
    /\ NoProjectData

\* the two users whose requests are followed, of different tenants, and the
\* principals that submit the forms
Actors == {u \in Users : u <= 2}
Callers == Actors \cup {Anonymous}

InitApp == Deployed({Unset}, Principals)

NextApp ==
    \/ \E u \in Callers : ProjectCreatePost(Session, u, <<"A">>, Empty)
    \/ \E u \in Callers, pk \in ProjectIds, sl \in {Empty, <<"a">>} :
          ProjectUpdatePost(Session, u, pk, <<"A">>, sl)
    \/ ProjectSave(Session)
    \/ \E u \in Callers, p \in ProjectIds, g \in FeatureIds \cup {NoParent} :
          FeatureCreate(Session, u, p, g)
    \/ \E u \in Callers, pk \in FeatureIds, p \in ProjectIds,
          g \in FeatureIds \cup {NoParent} : FeatureUpdate(Session, u, pk, p, g)

SpecApp == InitApp /\ [][NextApp]_vars

\* every view, under every connection context, on the rows the forms and the
\* admin site's add forms for requirements and scenarios store
InitViews == Deployed(Contexts, {Anonymous})

NextViews ==
    \/ NextApp
    \/ \E u \in Principals : ProjectList(Session, u)
    \/ \E u \in Principals, pk \in ProjectIds : ProjectDetail(Session, u, pk)
    \/ \E u \in Principals, pk \in ProjectIds, m \in Methods :
          ProjectDelete(Session, u, pk, m)
    \/ \E u \in Principals : FeatureList(Session, u)
    \/ \E u \in Principals, pk \in FeatureIds : FeatureDetail(Session, u, pk)
    \/ \E u \in Principals, pk \in FeatureIds, m \in Methods :
          FeatureDelete(Session, u, pk, m)
    \/ \E tbl \in ItemTables, t \in TenantIds, f \in FeatureIds : AdminItemAdd(tbl, t, f)

SpecViews == InitViews /\ [][NextViews]_vars

\* the forms together with the admin site's change form for projects
NextAdmin ==
    \/ NextApp
    \/ \E pk \in ProjectIds, t \in TenantIds : AdminProjectChange(pk, t)

SpecAdmin == InitApp /\ [][NextAdmin]_vars

\* two concurrent project create and update requests, interleaved between
\* form.is_valid() and form.save()
InitSlugs == Deployed({Unset}, {Anonymous})

Peer == CHOOSE w \in Workers : w # Session
Pair == {Session, Peer}

NextSlugs ==
    \/ \E w \in Pair, u \in Users, sl \in FormSlugs :
          ProjectCreatePost(w, u, <<"A">>, sl)
    \/ \E w \in Pair, u \in Users, pk \in ProjectIds, sl \in FormSlugs :
          ProjectUpdatePost(w, u, pk, <<"A">>, sl)
    \/ \E w \in Pair : ProjectSave(w)

SpecSlugs == InitSlugs /\ [][NextSlugs]_vars

\* signups, create_tenant runs and direct creations on an empty installation,
\* two signups at a time, interleaved between form.is_valid() and form.save()
InitTenants ==
    /\ conn = [w \in Workers |-> FreshConnection]
    /\ pc = [w \in Workers |-> "idle"]
    /\ req = [w \in Workers |-> InitReq]
    /\ rows = {}
    /\ NoPolicies
    /\ tenants = {}
    /\ accounts = {}
    /\ projects = {}
    /\ features = {}
    /\ items = {}
    /\ form = [w \in Workers |-> NoForm]
    /\ command = NoForm
    /\ out = NoResponseYet

NextTenants ==
    \/ \E w \in Pair, e \in Emails, n \in FormNames, sl \in FormSlugs :
          SignupPost(w, e, n, sl)
    \/ \E w \in Pair : SignupSave(w)
    \/ \E n \in FormNames, sl \in FormSlugs, i \in BOOLEAN : CreateTenantStart(n, sl, i)
    \/ CreateTenantCheck
    \/ CreateTenantCreate
    \/ \E sl \in FormSlugs \ {Empty} : TenantCreate(<<"A">>, sl)

SpecTenants == InitTenants /\ [][NextTenants]_vars

\* deletes of projects and features on the trees the forms and the admin
\* site's add forms build
NextCascade ==
    \/ \E u \in Actors : ProjectCreatePost(Session, u, <<"A">>, Empty)
    \/ ProjectSave(Session)
    \/ \E u \in Actors, p \in ProjectIds, g \in FeatureIds \cup {NoParent} :
          FeatureCreate(Session, u, p, g)
    \/ \E tbl \in ItemTables, f \in FeatureIds :
          \E g \in features : g.id = f /\ AdminItemAdd(tbl, g.tenant, f)
    \/ \E u \in Actors, pk \in ProjectIds : ProjectDelete(Session, u, pk, "POST")
    \/ \E u \in Actors, pk \in FeatureIds : FeatureDelete(Session, u, pk, "POST")

SpecCascade == InitSlugs /\ [][NextCascade]_vars

\* project and feature forms of the users of a tenant that has two projects
InitParents ==
    /\ conn = [w \in Workers |-> FreshConnection]
    /\ pc = [w \in Workers |-> "idle"]
    /\ req = [w \in Workers |-> InitReq]
    /\ rows = {[tbl |-> ProfileTable, id |-> u, tenant |-> 1] : u \in Users}
    /\ rls = Installed(DeclaredPolicies).rls
    /\ policies = DeclaredPolicies
    /\ runs = 0
    /\ stmt = [op |-> "none"]
    /\ tenants = SeedTenants
    /\ accounts = SeedAccounts
    /\ projects = {[id |-> MaxStored + 1, tenant |-> 1, slug |-> <<"a">>,
                    created_by |-> 1],
                   [id |-> MaxStored + 2, tenant |-> 1, slug |-> <<"a", "-", "1">>,
                    created_by |-> 1]}
    /\ features = {}
    /\ items = {}
    /\ form = [w \in Workers |-> NoForm]
    /\ command = NoForm
    /\ out = NoResponseYet

NextParents ==
    \/ \E u \in Actors, p \in EarlierIds, g \in {NoParent, 1} :
          FeatureCreate(Session, u, p, g)
    \/ \E u \in Actors, pk \in FeatureIds, p \in EarlierIds,
          g \in {NoParent, 1} : FeatureUpdate(Session, u, pk, p, g)
    \/ \E u \in Actors, pk \in EarlierIds :
          ProjectUpdatePost(Session, u, pk, <<"A">>, <<"a">>)
    \/ ProjectSave(Session)

SpecParents == InitParents /\ [][NextParents]_vars

\* signups on an empty installation after setup_rls, the policies enforced on
\* the application's connections; the requests are anonymous, so the
\* connections carry no tenant context
InitEnforced ==
    /\ conn = [w \in Workers |-> FreshConnection]
    /\ pc = [w \in Workers |-> "idle"]
    /\ req = [w \in Workers |-> InitReq]
    /\ rows = {}
    /\ rls = Installed(DeclaredPolicies).rls
    /\ policies = DeclaredPolicies
    /\ runs = 0
    /\ stmt = [op |-> "none"]
    /\ tenants = {}
    /\ accounts = {}
    /\ projects = {}
    /\ features = {}
    /\ items = {}
    /\ form = [w \in Workers |-> NoForm]
    /\ command = NoForm
    /\ out = NoResponseYet

NextEnforced ==
    \/ \E w \in Pair, e \in Emails, n \in FormNames, sl \in FormSlugs :
          SignupPost(w, e, n, sl)
    \/ \E w \in Pair : SignupSave(w)

SpecEnforced == InitEnforced /\ [][NextEnforced]_vars

\* requests of users of different tenants handled by two workers at a time,
\* each on the connection of its thread, their steps interleaved
InitConcurrent ==
    /\ conn = [w \in Workers |-> FreshConnection]
    /\ pc = [w \in Workers |-> "idle"]
    /\ req = [w \in Workers |-> InitReq]
    /\ rows = {[tbl |-> ProfileTable, id |-> u, tenant |-> HomeTenant(u)] : u \in Users}
    /\ NoPolicies
    /\ NoProjectData

NextConcurrent ==
    \/ \E w \in Pair, u \in Actors : MiddlewareCall(w, u, "none")
    \/ \E w \in Pair : HandlerRead(w)
    \/ \E w \in Pair, r \in Responses : Respond(w, r)

SpecConcurrent == InitConcurrent /\ [][NextConcurrent]_vars

\* ------------------------------------------------------------- properties
BoundRequest(w) == req[w].tenant # Unset
NoProfileRow(u) == ~\E r \in RowsOf(ProfileTable) : r.id = u
Unbound(w) == req[w].user = Anonymous \/ NoProfileRow(req[w].user)

\* C1: on one connection, when the previous request assigned the context of
\* tenant T1 and the request in flight resolves to another tenant T2, no read
\* of the request in flight is evaluated under T1's context.
NoContextLeak ==
    \A w \in Workers :
        (/\ req[w].read # NoRead
         /\ req[w].prev # Unset
         /\ BoundRequest(w)
         /\ req[w].prev[1] # Str(req[w].tenant[1]))
        => req[w].read[1] # req[w].prev

SecondTenantHasRead ==
    \E w \in Workers :
        /\ req[w].read # NoRead
        /\ req[w].prev # Unset
        /\ BoundRequest(w)
        /\ req[w].prev[1] # Str(req[w].tenant[1])

\* C2: while the handler of a request by an authenticated principal with a
\* Profile runs (no exception in the propagator), app.current_tenant_id on the
\* request's connection is the string form of the profile's tenant_id, and
\* every query of the handler was evaluated under that value.
HandlerRunsUnderTenant ==
    \A w \in Workers :
        (pc[w] = "handler" /\ BoundRequest(w) /\ req[w].exc = "none")
        => /\ CurrentSetting(conn[w]) = Some(Str(req[w].tenant[1]))
           /\ req[w].read # NoRead => req[w].read[1] = Some(Str(req[w].tenant[1]))

\* C3: once a request has been answered the value it assigned is no longer in
\* effect on the connection, and a request for which the propagator issues no
\* assignment runs, and reads, with the context unset.
RequestScopedContext ==
    \A w \in Workers :
        /\ pc[w] = "idle" => CurrentSetting(conn[w]) = Unset
        /\ (pc[w] = "handler" /\ req[w].executed = <<>>)
           => /\ CurrentSetting(conn[w]) = Unset
              /\ req[w].read # NoRead => req[w].read[1] = Unset

UnboundReadsAfterBound ==
    \E w \in Workers :
        /\ pc[w] = "handler"
        /\ Unbound(w)
        /\ req[w].executed = <<>>
        /\ req[w].prev # Unset
        /\ req[w].read # NoRead

\* C4: for an anonymous principal, and for an authenticated principal without a
\* Profile, the propagator executes no assignment of app.current_tenant_id and
\* the variable is unset while the handler runs.
NoAssignmentWithoutBinding ==
    \A w \in Workers :
        (pc[w] = "handler" /\ Unbound(w))
        => /\ req[w].executed = <<>>
           /\ req[w].tenant = Unset
           /\ CurrentSetting(conn[w]) = Unset

UnboundInHandler ==
    \E w \in Workers :
        /\ pc[w] = "handler"
        /\ req[w].user # Anonymous
        /\ NoProfileRow(req[w].user)
        /\ req[w].read # NoRead

\* C5: when resolving the profile or executing the SET raises, nothing is
\* raised out of the propagator, the handler is invoked exactly once, it runs
\* with no tenant context, and its response is what the propagator returns.
ExceptionsSwallowed ==
    \A w \in Workers :
        req[w].exc # "none"
        => /\ ~req[w].raised
           /\ req[w].calls = 1
           /\ pc[w] = "handler" => CurrentSetting(conn[w]) = Unset
           /\ pc[w] = "idle" => (req[w].resp \in Responses /\ req[w].ret = req[w].resp)

StorageErrorAnswered ==
    \E w \in Workers :
        /\ pc[w] = "idle"
        /\ req[w].exc = "DatabaseError"
        /\ req[w].ret \in Responses

\* C6: with the policies installed, a read of a tenant-scoped table under
\* context C returns a row R if and only if R.tenant = C or C is unset.
ReadPolicy ==
    (runs > 0 /\ stmt.op = "select")
    => \A r \in RowsOf(stmt.tbl) :
          r \in stmt.out <=> (stmt.ctx = Some(Str(r.tenant)) \/ stmt.ctx = Unset)

\* C7: with the policies installed, an insert of a tenant-scoped row with
\* tenant T under context C succeeds if and only if T = C, and a failed
\* insert leaves the table unchanged.
InsertPolicy ==
    (runs > 0 /\ stmt.op = "insert")
    => /\ stmt.ok <=> stmt.ctx = Some(Str(stmt.new))
       /\ ~stmt.ok => ~stmt.changed

\* C8: with the policies installed, an update of a tenant-scoped row under
\* context C is admitted only if the tenant of the existing row and the tenant
\* of the updated row both equal C (so never when C is unset).
UpdatePolicy ==
    (runs > 0 /\ stmt.op = "update" /\ stmt.ok)
    => /\ stmt.ctx = Some(Str(stmt.old))
       /\ stmt.ctx = Some(Str(stmt.new))

\* C9: with the policies installed, a delete of a tenant-scoped row under
\* context C is admitted if and only if the row's tenant equals C (so never
\* when C is unset).
DeletePolicy ==
    (runs > 0 /\ stmt.op = "delete")
    => (stmt.ok <=> stmt.ctx = Some(Str(stmt.old)))

\* C10: after setup_rls has run, every tenant-scoped table has row level
\* security enabled and one policy for each of SELECT, INSERT, UPDATE, DELETE.
AllTablesProtected ==
    runs > 0
    => \A t \in TenantScopedTables :
          /\ rls[t]
          /\ \A cmd \in Commands :
                Cardinality({p \in policies : p.tbl = t /\ p.cmd = cmd}) = 1

\* The four policies as installed on users_profile, the one tenant-scoped
\* table setup_rls covers: on that table C6-C10 hold.
ProfilePolicies ==
    runs > 0
    => /\ rls[ProfileTable]
       /\ \A cmd \in Commands :
             Cardinality({p \in policies : p.tbl = ProfileTable /\ p.cmd = cmd}) = 1
       /\ (stmt.op \in {"select", "insert", "update", "delete"} /\ stmt.tbl = ProfileTable)
          => /\ stmt.op = "select" =>
                  \A r \in RowsOf(ProfileTable) :
                     r \in stmt.out <=> (stmt.ctx = Some(Str(r.tenant)) \/ stmt.ctx = Unset)
             /\ stmt.op = "insert" =>
                  /\ stmt.ok <=> stmt.ctx = Some(Str(stmt.new))
                  /\ ~stmt.ok => ~stmt.changed
             /\ (stmt.op = "update" /\ stmt.ok) =>
                  (stmt.ctx = Some(Str(stmt.old)) /\ stmt.ctx = Some(Str(stmt.new)))
             /\ stmt.op = "delete" => (stmt.ok <=> stmt.ctx = Some(Str(stmt.old)))

\* C11: setup_rls run any number of times, on a catalog with no policies, with
\* the declared policies or with the legacy policy, never fails on an existing
\* policy and leaves exactly the declared policies, one of each name, on
\* tables with row level security enabled: the state one run leaves.
SetupIdempotent ==
    /\ stmt.op = "setup_rls" => stmt.ok
    /\ runs > 0
       => /\ policies = DeclaredPolicies
          /\ rls = Installed(DeclaredPolicies).rls
          /\ \A p, q \in policies : (p.tbl = q.tbl /\ p.name = q.name) => p = q

SetupRerun == runs >= 2 /\ stmt.op = "setup_rls" /\ stmt.ok
\* C12: every row a project or feature view returns, modifies or deletes has
\* the tenant of the requesting principal's profile, under every connection
\* context.
ViewIsolation ==
    out.view \in Views => \A t \in out.owners : out.tenant = Some(t)

\* C13: a create request for a Project or a Feature by an authenticated
\* principal without a Profile stores nothing, changes no row and is answered
\* by a redirect.
NoProfileRejected ==
    [][(out'.view \in {"project_create", "feature_create"} /\ out'.gate = "profile")
       => /\ out'.status = 302
          /\ ~out'.wrote
          /\ form' = form \/ out' = out
          /\ <<projects, features, items, rows>>' = <<projects, features, items, rows>>]_vars

NoProfileCreateRedirected ==
    /\ out.view = "feature_create"
    /\ out.gate = "profile"
    /\ out.status = 302
    /\ \E u \in Users : NoProfileRow(u)
    /\ projects # {}

TenantNeverReassigned ==
    [][/\ \A p \in projects : \A q \in projects' : p.id = q.id => p.tenant = q.tenant
       /\ \A f \in features : \A g \in features' : f.id = g.id => f.tenant = g.tenant]_vars
\* C16: no two Projects of one tenant have the same slug, whatever the
\* interleaving of create and update requests; Projects of different tenants
\* may.
SlugUniquePerTenant ==
    \A p, q \in projects :
        /\ p.id = q.id => p = q
        /\ (p.tenant = q.tenant /\ p.slug = q.slug) => p.id = q.id

SlugSharedAcrossTenants ==
    /\ \E p, q \in projects : p.tenant # q.tenant /\ p.slug = q.slug
    /\ out.status = 500

\* C18: a project_create whose slug is taken in the tenant succeeds, the new
\* project getting a numeric suffix; in this model a taken slug is the only
\* reason a bound principal's project_create is refused (status 200) or fails
\* on the constraint (status 500).
ProjectCollisionSuffixed ==
    (out.view = "project_create" /\ out.gate = "ok") => out.status = 302

\* what C17 says the signup form yields for base slug s against the stored slugs
SuffixResolved(s, yielded) ==
    IF s \notin TenantSlugs THEN yielded = s
    ELSE \E k \in 1..(Cardinality(tenants) + 1) :
            /\ yielded = Suffixed(s, k)
            /\ yielded \notin TenantSlugs
            /\ \A j \in 1..(k - 1) : Suffixed(s, j) \in TenantSlugs

\* C17: a signup form that validates yields its base slug when no Tenant has
\* it, and otherwise the base slug suffixed with the smallest k >= 1 that no
\* Tenant has; the form stays valid.
SignupCollisionSuffixed ==
    [][\A w \in Workers :
          (form[w] = NoForm /\ form'[w].op = "signup")
              => SuffixResolved(form'[w].base, form'[w].slug)]_vars

\* the same for the base slugs that are not empty, where it holds
NamedSlugCollisionSuffixed ==
    [][\A w \in Workers :
          (form[w] = NoForm /\ form'[w].op = "signup" /\ form'[w].base # Empty)
              => SuffixResolved(form'[w].base, form'[w].slug)]_vars

NamedSlugSuffixedTwice ==
    \E w \in Workers :
        /\ form[w].op = "signup"
        /\ form[w].base = <<"a">>
        /\ form[w].slug = <<"a", "-", "1">>

\* C19: a create_tenant run whose slug a Tenant already has ends with an
\* error and leaves the tenants unchanged, at the duplicate check with a
\* CommandError; otherwise it stores exactly one Tenant, with the given name,
\* slug and active flag.
CreateTenantRejectsDuplicate ==
    [][/\ (command # NoForm /\ command.at = "check" /\ command' # command
              /\ command.slug \in TenantSlugs)
          => /\ command' = NoForm
             /\ out'.view = "create_tenant"
             /\ out'.gate = "CommandError"
             /\ tenants' = tenants
       /\ (command # NoForm /\ command' = NoForm)
          => IF command.slug \in TenantSlugs
             THEN /\ tenants' = tenants
                  /\ out'.view = "create_tenant"
                  /\ out'.gate \in {"CommandError", "IntegrityError"}
                  /\ ~out'.wrote
             ELSE \E t \in tenants' \ tenants :
                     /\ tenants' = tenants \cup {t}
                     /\ t.name = command.name
                     /\ t.active = command.active
                     /\ t.slug = command.slug
                     /\ command.requested # Empty => t.slug = command.requested]_vars

CreateTenantDuplicateRejected ==
    /\ out.view = "create_tenant"
    /\ out.gate = "CommandError"
    /\ \E t \in tenants : ~t.active

\* C20: no two Tenants have the same slug, whatever the interleaving of
\* signups, create_tenant runs and direct creations.
TenantSlugsUnique ==
    \A t \in tenants : \A u \in tenants : t.slug = u.slug => t = u

SecondTenantRefused ==
    /\ out.view = "signup"
    /\ out.status = 500
    /\ tenants # {}
    /\ Cardinality(accounts) > Cardinality(tenants)

\* the features reached from fs by following parent links downwards, n times
RECURSIVE Below(_, _)
Below(fs, n) ==
    IF n = 0 THEN fs
    ELSE Below(fs \cup {f \in features : \E g \in fs : f.parent = g.id}, n - 1)

\* C21: a delete removes the project or feature, every feature of the project,
\* every feature below a removed feature and every requirement and scenario
\* of a removed feature, and nothing else.
CascadingDelete ==
    [][LET gp == projects \ projects'
           gf == features \ features'
           gi == items \ items'
           depth == Cardinality(features)
       IN (out'.view \in {"project_delete", "feature_delete"}
              /\ (gp \cup gf) # {})
          => /\ projects' = projects \ gp
             /\ features' = features \ gf
             /\ items' = items \ gi
             /\ Cardinality(gp) <= 1
             /\ IF gp # {}
                THEN gf = Below({f \in features : \E p \in gp : f.project = p.id},
                                depth)
                ELSE \E f \in gf : gf = Below({f}, depth)
             /\ gi = {i \in items : \E f \in gf : i.feature = f.id}
             /\ \A f \in features' :
                   /\ \A p \in gp : f.project # p.id
                   /\ \A g \in gf : f.parent # g.id
             /\ \A j \in items' : \A g \in gf : j.feature # g.id]_vars

ProjectDeletedOthersKept ==
    /\ out.view = "project_delete"
    /\ out.status = 302
    /\ features # {}
    /\ \A f \in features : \E p \in projects : f.project = p.id

\* the features reached from f by following parent links upwards, up to n times
RECURSIVE Above(_, _)
Above(fs, n) ==
    IF n = 0 THEN {}
    ELSE LET up == {g \in features : \E f \in fs : f.parent = g.id}
         IN up \cup Above(up, n - 1)

\* C22: the parent relation of the stored features has no cycle: no feature is
\* its own ancestor.
FeatureForest ==
    \A f \in features : f \notin Above({f}, Cardinality(features))

\* C28: every stored feature that has a parent belongs to the project its
\* parent belongs to.
ParentInSameProject ==
    \A f \in features : \A g \in features :
        f.parent = g.id => f.project = g.project

\* C25: an update through project_update or feature_update leaves created_by
\* of the updated row as it was, whoever performs the update.
CreatorKept ==
    [][/\ out'.view = "project_update"
          => \A p \in projects : \A q \in projects' :
                p.id = q.id => q.created_by = p.created_by
       /\ out'.view = "feature_update"
          => \A f \in features : \A g \in features' :
                f.id = g.id => g.created_by = f.created_by]_vars

\* what a completed signup stores for the form f: one User, one Tenant, one
\* Profile binding the two
SignupStored(f) ==
    \E a \in accounts' \ accounts, t \in tenants' \ tenants, r \in rows' \ rows :
        /\ accounts' = accounts \cup {a}
        /\ tenants' = tenants \cup {t}
        /\ rows' = rows \cup {r}
        /\ a.email = f.email
        /\ t.name = f.name /\ t.slug = f.slug /\ t.active
        /\ r.tbl = ProfileTable /\ r.id = a.id /\ r.tenant = t.id

\* C23: a valid signup stores exactly one User, one Tenant with the
\* organization name and validated slug, active, and one Profile binding the
\* user to the tenant, and is answered with the redirect of a logged-in user;
\* an invalid submission stores none of them.
SignupCreatesAll ==
    [][\A w \in Workers :
          /\ (form[w].op = "signup" /\ form'[w] = NoForm)
             => SignupStored(form[w]) /\ out'.status = 302
          /\ (out' # out /\ out'.view = "signup" /\ out'.status = 200)
             => <<accounts, tenants, rows>>' = <<accounts, tenants, rows>>]_vars

\* the same for the signups whose validated slug no Tenant has when the form
\* is saved, where it holds
SignupCreatesAllOnFreeSlug ==
    [][\A w \in Workers :
          (form[w].op = "signup" /\ form'[w] = NoForm
              /\ form[w].slug \notin TenantSlugs)
          => SignupStored(form[w]) /\ out'.status = 302]_vars

\* C24: a signup with the e-mail of a stored User is rejected and stores
\* nothing: no form with such an e-mail passes validation, and a rejected
\* submission leaves users, tenants and profiles as they were.
DuplicateEmailRejected ==
    [][/\ \A w \in Workers :
             (form[w] = NoForm /\ form'[w].op = "signup")
                => \A a \in accounts : a.email # form'[w].email
       /\ (out' # out /\ out'.view = "signup" /\ out'.status = 200)
             => /\ form' = form
                /\ <<accounts, tenants, rows>>' = <<accounts, tenants, rows>>]_vars

DuplicateEmailRefused ==
    /\ out.view = "signup"
    /\ out.status = 200
    /\ accounts # {}

\* C27: create_tenant without --slug checks and stores slugify(name) as the
\* slug.
CreateTenantSlugifiesName ==
    (command # NoForm /\ command.requested = Empty)
        => command.slug = Slugify(command.name)

\* C29: every User stored by signup has exactly one Profile, bound to a
\* stored Tenant.
SignupAllOrNothing ==
    \A a \in accounts :
        \E r \in rows :
            /\ r.tbl = ProfileTable /\ r.id = a.id
            /\ \E t \in tenants : t.id = r.tenant
            /\ \A q \in rows : (q.tbl = ProfileTable /\ q.id = a.id) => q = r

\* C30: with the setup_rls policies enforced, a signup that stores its Tenant
\* also stores the Profile: the insert policy admits the row.
SignupProfileAdmitted ==
    [][\A w \in Workers :
          (form[w].op = "signup" /\ form'[w] = NoForm /\ tenants' # tenants)
              => \E r \in rows' \ rows :
                    /\ r.tbl = ProfileTable
                    /\ \E t \in tenants' \ tenants : r.tenant = t.id]_vars

\* two requests in their handlers on different workers, for different tenants
Concurrent(w, v) ==
    /\ w # v
    /\ pc[w] = "handler" /\ pc[v] = "handler"
    /\ BoundRequest(w) /\ BoundRequest(v)
    /\ req[w].tenant # req[v].tenant

\* C26: while two requests of principals bound to different tenants are
\* handled by different workers, no query of one is evaluated under the
\* context the other assigned.
ConcurrentIsolation ==
    \A w \in Workers : \A v \in Workers :
        (Concurrent(w, v) /\ req[w].read # NoRead /\ req[v].executed # <<>>)
            => req[w].read[1] # LastAssigned(v)

ConcurrentReads ==
    \E w \in Workers : \E v \in Workers :
        /\ Concurrent(w, v)
        /\ req[w].read # NoRead /\ req[v].read # NoRead
        /\ req[w].executed # <<>> /\ req[v].executed # <<>>


====
